---- MODULE Spec2Model ----
(***************************************************************************)
(* Model of manage_beamline.py: the ManageBeamline context (update, get,   *)
(* run, shallow and deep copy, eval_beamline) and the predicate decorators *)
(* (check_sc_limit_emission, no_negative_velocity, monotonic_energy_gain,  *)
(* final_energy, no_timeout) that wrap a terminal callable.                *)
(*                                                                         *)
(* Python values are pairs <<type, number>>; bool is a subclass of int, so *)
(* Python's == compares the numbers only.                                  *)
(***************************************************************************)
EXTENDS Integers, Sequences, FiniteSets, TLC

\* ------------------------------------------------------------------ bounds
MaxObjs == 2        \* ManageBeamline objects (and simulators, configurations) on the heap
MaxVal == 1         \* editable values range over 0..MaxVal
MaxChanges == 2     \* entries of one val_dict
MaxChain == 2       \* predicate decorators stacked on one terminal action
MaxLen == 3         \* samples of one diagnostic record drawn for the predicates
MaxKE == 2          \* kinetic energies drawn for the predicates range over 0..MaxKE
MaxAmp == 2         \* gun amplitudes and total charges drawn for the predicates range over 0..MaxAmp

\* ------------------------------------------------------- python values
PyNone == <<"NoneType", 0>>
PyFalse == <<"bool", 0>>
PyTrue == <<"bool", 1>>
PyInt(n) == <<"int", n>>
PyEq(a, b) == a[2] = b[2]
NoExc == "none"

\* ------------------------------------------- configuration (external)
Keys == {"amp", "charge"}          \* keys registered in beamline_config.settings
UnknownKey == "zz"                 \* a key that is not registered
AllKeys == Keys \cup {UnknownKey}
Vals == 0..MaxVal

RadiusName == "distgen__r_dist:truncation_radius:value"
DefaultGunPhase == 90
DefaultRadius == 1
AmpScale == 2

\* BeamlineConfiguration.gen(): the derived settings mapping, a function of
\* the editable values only.
gen(vals) ==
    ("GunAmp" :> AmpScale * vals["amp"]) @@ ("GunPhase" :> DefaultGunPhase)
      @@ (RadiusName :> DefaultRadius) @@ ("Qtotal" :> vals["charge"])

\* val_dict: a dict, iterated in insertion order; keys are distinct.
ChangeSeqs ==
    { s \in UNION { [1..n -> AllKeys \X Vals] : n \in 0..MaxChanges } :
        \A i, j \in 1..Len(s) : i # j => s[i][1] # s[j][1] }
ChangeKeys(ch) == { ch[i][1] : i \in 1..Len(ch) }
ChangeVal(ch, k) == LET i == CHOOSE i \in 1..Len(ch) : ch[i][1] = k IN ch[i][2]

\* ------------------------------------------------------- diagnostics
\* A diagnostic record set of one simulator: fort18 is the KE column of
\* element 18 (sample i is at longitudinal position i), fort26 the avgPz
\* column of element 26.
DiagSet ==
    { [fort18 |-> <<1, 2, 3>>, fort26 |-> <<1, 0, 2>>],
      [fort18 |-> <<1, 0, 3>>, fort26 |-> <<1, -1, 2>>],
      [fort18 |-> <<3, 3, 1>>, fort26 |-> <<2, 1>>],
      [fort18 |-> <<>>, fort26 |-> <<>>] }
NoDiag == [fort18 |-> <<>>, fort26 |-> <<>>]

\* ------------------------------------------------------------- state
ObjIds == 1..MaxObjs
Null == 0

VARIABLES
    objs,      \* ManageBeamline objects: [beamline, beamline_config] references, Null when not allocated
    configs,   \* BeamlineConfiguration objects: settings[key]['input']['value']
    beams,     \* ImpactTBeamline objects: settings mapping and diagnostic records
    last,      \* the last operation the caller invoked and what it returned or raised
    call,      \* the chain call in progress
    dups,      \* pairs <<original, duplicate>> made by copy.deepcopy (bookkeeping for the properties)
    arg,       \* the argument of the last update or get, where the specification records it
    deco       \* a decorated callable: the parameters its wrappers hold, and its previous invocation

vars == <<objs, configs, beams, last, call, dups, arg, deco>>

NoObj == [beamline |-> Null, beamline_config |-> Null]
\* No invocation of the decorated callable has returned yet.
NoPrev == [n |-> 0, settings |-> <<>>, diag |-> NoDiag, verdicts |-> <<>>, calls |-> <<>>]
\* Nothing has been decorated.
NoDeco == [state |-> "none", preds |-> <<>>, orig |-> <<>>, term |-> "value", prev |-> NoPrev]
NoCall ==
    [phase |-> "idle", preds |-> <<>>, term |-> "none", args |-> <<>>, kwargs |-> <<>>,
     pos |-> 0, calls |-> <<>>, recv |-> <<>>, verdicts |-> <<>>, rets |-> <<>>,
     log |-> <<>>, reads |-> <<>>, raised |-> [stage |-> 0, exc |-> NoExc],
     diag0 |-> <<>>, ret |-> PyNone, exc |-> NoExc]
Allocated(o) == objs[o].beamline # Null
FreeObjs == { o \in ObjIds : ~Allocated(o) }
UsedBeams == { objs[o].beamline : o \in ObjIds } \ {Null}
UsedConfigs == { objs[o].beamline_config : o \in ObjIds } \ {Null}

CfgOf(o) == objs[o].beamline_config
BeamOf(o) == objs[o].beamline

InitVals == [k \in Keys |-> 0]
InitBeam(s) == [settings |-> s, diag |-> NoDiag]

\* ManageBeamline.__init__: the object holds the two references it is given;
\* the simulator's settings are whatever the simulator was built with.
ManageBeamline_init(beamline, beamline_config) ==
    [beamline |-> beamline, beamline_config |-> beamline_config]

Init ==
    /\ objs = [o \in ObjIds |-> IF o = 1 THEN ManageBeamline_init(1, 1) ELSE NoObj]
    /\ configs = [c \in ObjIds |-> InitVals]
    /\ \E s \in {<<>>, gen(InitVals)} : beams = [b \in ObjIds |-> InitBeam(s)]
    /\ last = [op |-> "init", obj |-> 1, ret |-> PyNone, exc |-> NoExc]
    /\ call = NoCall
    /\ dups = {}
    /\ arg = <<>>
    /\ deco = NoDeco

\* ------------------------------------------------ ManageBeamline.update
\* The for loop of update: writes the entries in order; the subscript
\* settings[key] of a key that is not registered raises KeyError and the
\* loop ends there.
\* Variant: every entry overwrites all the stored values, not only its key's.
RECURSIVE WriteValues_AllKeys(_, _, _)
WriteValues_AllKeys(vals, ch, i) ==
    IF i > Len(ch) THEN [vals |-> vals, exc |-> NoExc]
    ELSE IF ch[i][1] \notin DOMAIN vals THEN [vals |-> vals, exc |-> "KeyError"]
    ELSE WriteValues_AllKeys([k \in DOMAIN vals |-> ch[i][2]], ch, i + 1)

RECURSIVE WriteValues(_, _, _)
WriteValues(vals, ch, i) ==
    IF i > Len(ch) THEN [vals |-> vals, exc |-> NoExc]
    ELSE IF ch[i][1] \notin DOMAIN vals THEN [vals |-> vals, exc |-> "KeyError"]
    ELSE WriteValues([vals EXCEPT ![ch[i][1]] = ch[i][2]], ch, i + 1)

\* What update assigns to beamline.settings once the loop has ended normally.
UpdateSettings(vals) == gen(vals)

Update(o, ch) ==
    /\ call.phase = "idle"
    /\ Allocated(o)
    /\ LET c == objs[o].beamline_config
           b == objs[o].beamline
           w == WriteValues(configs[c], ch, 1)
       IN /\ configs' = [configs EXCEPT ![c] = w.vals]
          /\ beams' = IF w.exc = NoExc
                        THEN [beams EXCEPT ![b].settings = UpdateSettings(w.vals)]
                        ELSE beams
          /\ last' = [op |-> "update", obj |-> o, ret |-> PyNone, exc |-> w.exc]
    /\ UNCHANGED <<objs, call, dups>>

\* --------------------------------------------------- ManageBeamline.get
GetValue(vals, key) ==
    IF key \in DOMAIN vals THEN [ret |-> PyInt(vals[key]), exc |-> NoExc]
    ELSE [ret |-> PyNone, exc |-> "KeyError"]

\* Variant: get also regenerates the simulator settings.
Get_Refresh(o, key) ==
    /\ call.phase = "idle"
    /\ Allocated(o)
    /\ LET g == GetValue(configs[objs[o].beamline_config], key)
       IN last' = [op |-> "get", obj |-> o, ret |-> g.ret, exc |-> g.exc]
    /\ beams' = [beams EXCEPT ![objs[o].beamline].settings = gen(configs[objs[o].beamline_config])]
    /\ UNCHANGED <<objs, configs, call, dups>>

Get(o, key) ==
    /\ call.phase = "idle"
    /\ Allocated(o)
    /\ LET g == GetValue(configs[objs[o].beamline_config], key)
       IN last' = [op |-> "get", obj |-> o, ret |-> g.ret, exc |-> g.exc]
    /\ UNCHANGED <<objs, configs, beams, call, dups>>

\* ------------------------------------------ ManageBeamline.__copy__
\* result.__dict__.update(self.__dict__): the new object holds the same two
\* references.
ShallowCopy(obj) == [beamline |-> obj.beamline, beamline_config |-> obj.beamline_config]

Copy(o) ==
    /\ call.phase = "idle"
    /\ Allocated(o)
    /\ FreeObjs # {}
    /\ LET n == CHOOSE n \in FreeObjs : \A m \in FreeObjs : n <= m
       IN /\ objs' = [objs EXCEPT ![n] = ShallowCopy(objs[o])]
          /\ last' = [op |-> "copy", obj |-> o, ret |-> PyNone, exc |-> NoExc]
    /\ UNCHANGED <<configs, beams, call, dups>>

\* ---------------------------------------- ManageBeamline.__deepcopy__
\* copy.deepcopy(self.__dict__, memo): the new object refers to a new
\* simulator nb and a new configuration nc, copies of the old ones.
\* Variant: the configuration is not copied, the duplicate keeps the reference.
DeepCopyRefs_SharedConfig(obj, nb, nc) == [beamline |-> nb, beamline_config |-> obj.beamline_config]

DeepCopyRefs(obj, nb, nc) == [beamline |-> nb, beamline_config |-> nc]

DeepCopy(o) ==
    /\ call.phase = "idle"
    /\ Allocated(o)
    /\ FreeObjs # {}
    /\ LET n == CHOOSE n \in FreeObjs : \A m \in FreeObjs : n <= m
           nb == CHOOSE b \in ObjIds \ UsedBeams : \A m \in ObjIds \ UsedBeams : b <= m
           nc == CHOOSE c \in ObjIds \ UsedConfigs : \A m \in ObjIds \ UsedConfigs : c <= m
           r == DeepCopyRefs(objs[o], nb, nc)
       IN /\ objs' = [objs EXCEPT ![n] = r]
          /\ beams' = [beams EXCEPT ![nb] = beams[objs[o].beamline]]
          /\ configs' = [configs EXCEPT ![nc] = configs[objs[o].beamline_config]]
          /\ last' = [op |-> "deepcopy", obj |-> o, ret |-> PyNone, exc |-> NoExc]
          /\ dups' = dups \cup {<<o, n>>}
    /\ UNCHANGED call

\* ------------------------------------------------------ simulator run
\* ImpactTBeamline.run() (external): the simulator process ends normally,
\* is aborted at the wall-clock limit, or exits abnormally; it leaves the
\* diagnostic records d behind.
RunOutcomes == {"ok", "TimeoutExpired", "CalledProcessError"}
RunExc(outcome) == IF outcome = "ok" THEN NoExc ELSE outcome
BeamlineRun(beam, d) == [beam EXCEPT !.diag = d]

\* The value no_timeout returns for a run that timed out.
TimedOut == -1
\* The value ManageBeamline.run returns after beamline.run() has returned.
RunSuccess == 1

\* try_except_timeout (imported from impact_t_beamline): a timeout becomes
\* the timed-out value, anything else is passed on.
try_except_timeout(r) ==
    IF r.exc = "TimeoutExpired" THEN [ret |-> PyInt(TimedOut), exc |-> NoExc] ELSE r

\* Names bound at module level of manage_beamline.py.
ModuleNames ==
    {"inspect", "functools", "Callable", "np", "logging", "copy", "ImpactTBeamline",
     "try_except_timeout", "block_negative_velocity", "BeamlineConfiguration",
     "ImpactIN", "logger"}

\* no_timeout: once func has raised, the except clauses are evaluated in
\* order; the first one looks up the name subprocess.
no_timeout(r) ==
    IF r.exc = NoExc THEN r
    ELSE IF "subprocess" \notin ModuleNames THEN [ret |-> PyNone, exc |-> "NameError"]
    ELSE IF r.exc = "TimeoutExpired" THEN [ret |-> PyInt(TimedOut), exc |-> NoExc]
    ELSE r

\* Variant: run returns 0 after the simulator has run.
RunBody_Zero(outcome) ==
    IF outcome = "ok" THEN [ret |-> PyInt(0), exc |-> NoExc]
    ELSE [ret |-> PyNone, exc |-> RunExc(outcome)]

\* Body of ManageBeamline.run: self.beamline.run(); return 1
RunBody(outcome) ==
    IF outcome = "ok" THEN [ret |-> PyInt(RunSuccess), exc |-> NoExc]
    ELSE [ret |-> PyNone, exc |-> RunExc(outcome)]

ManageBeamline_run(outcome) == try_except_timeout(RunBody(outcome))

Run(o, outcome, d) ==
    /\ call.phase = "idle"
    /\ Allocated(o)
    /\ LET r == ManageBeamline_run(outcome)
       IN /\ beams' = [beams EXCEPT ![objs[o].beamline] = BeamlineRun(@, d)]
          /\ last' = [op |-> "run", obj |-> o, ret |-> r.ret, exc |-> r.exc]
    /\ UNCHANGED <<objs, configs, call, dups>>

\* ============================================== predicate decorators
\* Phases are written in degrees as offsets from the default
\* zero_crossing_phase (-48.61939264802021), charges in units for which
\* Q_TOT/8.85e-12/pi*1e-6 is the number itself, so that the two field
\* strengths are exact rationals.
DefaultZeroCrossing == 0
DefaultScFactor == [num |-> 11, den |-> 10]

\* The decorated predicates: decorator name and decoration-time parameters.
Stage(kind, zcp, scf, rname, zpos, tol, fke) ==
    [kind |-> kind, zero_crossing_phase |-> zcp, sc_factor |-> scf, radius_name |-> rname,
     z_pos |-> zpos, tol |-> tol, final_ke |-> fke]
check_sc_limit_emission(zcp, scf, rname) == Stage("check_sc_limit_emission", zcp, scf, rname, <<>>, 0, 0)
no_negative_velocity == Stage("no_negative_velocity", 0, DefaultScFactor, "", <<>>, 0, 0)
monotonic_energy_gain(z_pos, tol) == Stage("monotonic_energy_gain", 0, DefaultScFactor, "", z_pos, tol, 0)
final_energy(final_ke, tol) == Stage("final_energy", 0, DefaultScFactor, "", <<>>, tol, final_ke)

StageSet ==
    { check_sc_limit_emission(DefaultZeroCrossing, DefaultScFactor, RadiusName),
      no_negative_velocity,
      monotonic_energy_gain(<<3, 1, 2>>, 0),
      final_energy(3, 1) }

\* get_beamline_instance: the ImpactTBeamline instances among the positional
\* arguments, in order; [0] of an empty list raises IndexError.
IsBeamline(x) == x \in ObjIds
BeamlineInstances(args) == SelectSeq(args, IsBeamline)
\* Variant: of several matching arguments the last one is taken.
get_beamline_instance_Last(args) ==
    IF BeamlineInstances(args) = <<>> THEN [b |-> Null, exc |-> "IndexError"]
    ELSE [b |-> BeamlineInstances(args)[Len(BeamlineInstances(args))], exc |-> NoExc]

get_beamline_instance(args) ==
    IF BeamlineInstances(args) = <<>> THEN [b |-> Null, exc |-> "IndexError"]
    ELSE [b |-> BeamlineInstances(args)[1], exc |-> NoExc]

\* Variant: the records of the two elements are mixed up.
getFort_Swapped(diag, fort_num) == IF fort_num = 18 THEN diag.fort26 ELSE diag.fort18

\* ImpactTBeamline.getFort(fort_num): the whole record of that element.
getFort(diag, fort_num) == IF fort_num = 18 THEN diag.fort18 ELSE diag.fort26

\* ImpactTBeamline.getFort_z_pos(fort_num, z_pos_list): the rows of the record
\* at the listed positions, in the order of the list.
RECURSIVE RowsAt(_, _)
RowsAt(rec, zs) ==
    IF zs = <<>> THEN <<>>
    ELSE IF Head(zs) \in 1..Len(rec) THEN <<rec[Head(zs)]>> \o RowsAt(rec, Tail(zs))
    ELSE RowsAt(rec, Tail(zs))
getFort_z_pos(diag, fort_num, z_pos_list) == RowsAt(getFort(diag, fort_num), z_pos_list)

\* sorted(z_pos)
Sorted(z_pos) == SortSeq(z_pos, LAMBDA a, b : a < b)

\* 2*sin of an angle given in degrees.
Sin2(d) ==
    CASE d = 0 -> 0 [] d = 30 -> 1 [] d = 90 -> 2 [] d = 150 -> 1 [] d = 180 -> 0
      [] d = -30 -> -1 [] d = -90 -> -2 [] d = -150 -> -1 [] d = -180 -> 0

InfoLine(test, vals) == [test |-> test, kind |-> "quantities", vals |-> vals]
VerdictLine(test, passed) == [test |-> test, kind |-> IF passed THEN "Pass" ELSE "Fail", vals |-> <<>>]
Evaluated(passed, log, reads) == [exc |-> NoExc, pass |-> passed, log |-> log, reads |-> reads]
Raised(exc) == [exc |-> exc, pass |-> FALSE, log |-> <<>>, reads |-> <<>>]

\* Variant: the comparison of the two field strengths admits equality.
ScEval_Inclusive(st, settings) ==
    IF \E k \in {"GunAmp", "GunPhase", st.radius_name, "Qtotal"} : k \notin DOMAIN settings
      THEN Raised("KeyError")
    ELSE
      LET eF_gun2 == settings["GunAmp"] * Sin2(settings["GunPhase"] - st.zero_crossing_phase)
          rRMS == settings[st.radius_name]
          passed == eF_gun2 * st.sc_factor.den * rRMS * rRMS >= 2 * st.sc_factor.num * settings["Qtotal"]
      IN Evaluated(passed,
                   <<InfoLine("Space Charge Limited Emission Test", <<eF_gun2, settings["Qtotal"], rRMS>>),
                     VerdictLine("Space Charge Limited Emission Test", passed)>>,
                   <<>>)

\* check_sc_limit_emission.wrapper up to its verdict: eF_gun > sc_factor*eF_sc
\* with eF_sc = Q_TOT/rRMS**2 and eF_gun = gun_amp*sin(gun_phase - zero_crossing_phase).
ScEval(st, settings) ==
    IF \E k \in {"GunAmp", "GunPhase", st.radius_name, "Qtotal"} : k \notin DOMAIN settings
      THEN Raised("KeyError")
    ELSE
      LET gun_amp == settings["GunAmp"]
          gun_phase == settings["GunPhase"]
          rRMS == settings[st.radius_name]
          Q_TOT == settings["Qtotal"]
          eF_gun2 == gun_amp * Sin2(gun_phase - st.zero_crossing_phase)
          passed == eF_gun2 * st.sc_factor.den * rRMS * rRMS > 2 * st.sc_factor.num * Q_TOT
      IN Evaluated(passed,
                   <<InfoLine("Space Charge Limited Emission Test", <<eF_gun2, Q_TOT, rRMS>>),
                     VerdictLine("Space Charge Limited Emission Test", passed)>>,
                   <<>>)

\* Variant: a sample of exactly zero fails the test as well.
NnvEval_ZeroFails(st, diag) ==
    LET avgPz == diag.fort26
        passed == ~(\E i \in 1..Len(avgPz) : avgPz[i] <= 0)
    IN Evaluated(passed, <<VerdictLine("Negative Velocity Test", passed)>>,
                 <<[fort |-> 26, seen |-> avgPz]>>)

\* no_negative_velocity.wrapper up to its verdict: np.any(z_df.avgPz < 0) fails.
NnvEval(st, diag) ==
    LET avgPz == getFort(diag, 26)
        passed == ~(\E i \in 1..Len(avgPz) : avgPz[i] < 0)
    IN Evaluated(passed, <<VerdictLine("Negative Velocity Test", passed)>>,
                 <<[fort |-> 26, seen |-> avgPz]>>)

\* monotonic_energy_gain.wrapper up to its verdict: np.all(np.diff(ke_vals) > -tol).
MegEval(st, diag) ==
    LET ke_vals == getFort_z_pos(diag, 18, Sorted(st.z_pos))
        passed == \A i \in 1..(Len(ke_vals) - 1) : ke_vals[i + 1] - ke_vals[i] > -st.tol
    IN Evaluated(passed,
                 <<InfoLine("Monotonic Energy Test", ke_vals),
                   VerdictLine("Monotonic Energy Test", passed)>>,
                 <<[fort |-> 18, seen |-> getFort(diag, 18)]>>)

Abs(x) == IF x < 0 THEN -x ELSE x

\* Variant: a difference equal to the tolerance passes.
FeEval_Inclusive(st, diag) ==
    LET KE == diag.fort18
    IN IF KE = <<>> THEN Raised("IndexError")
       ELSE Evaluated(Abs(KE[Len(KE)] - st.final_ke) <= st.tol,
                      <<InfoLine("Final Energy Test", <<KE[Len(KE)], st.final_ke>>)>>,
                      <<[fort |-> 18, seen |-> KE]>>)

\* final_energy.wrapper up to its verdict: np.abs(KE.values[-1] - final_ke) < tol;
\* values[-1] of an empty record raises IndexError.  No verdict line is logged.
FeEval(st, diag) ==
    LET KE == getFort(diag, 18)
    IN IF KE = <<>> THEN Raised("IndexError")
       ELSE Evaluated(Abs(KE[Len(KE)] - st.final_ke) < st.tol,
                      <<InfoLine("Final Energy Test", <<KE[Len(KE)], st.final_ke>>)>>,
                      <<[fort |-> 18, seen |-> KE]>>)

\* A predicate wrapper from its entry to its verdict.
WrapperEval(st, args, bs) ==
    LET g == get_beamline_instance(args)
    IN IF g.exc # NoExc THEN Raised(g.exc)
       ELSE CASE st.kind = "check_sc_limit_emission" -> ScEval(st, bs[g.b].settings)
              [] st.kind = "no_negative_velocity" -> NnvEval(st, bs[g.b].diag)
              [] st.kind = "monotonic_energy_gain" -> MegEval(st, bs[g.b].diag)
              [] st.kind = "final_energy" -> FeEval(st, bs[g.b].diag)

\* Variant: the wrapper calls func whatever the verdict.
InvokesInner_Always(passed) == TRUE

\* The branch of a wrapper that calls func: taken when the condition holds.
InvokesInner(passed) == passed
\* func(*args, **kwargs): what the wrapper hands to the wrapped callable.
PassArgs(a) == a
\* Variant: the wrapper returns whether func's value is truthy.
WrapperReturn_Bool(v) == IF v[2] # 0 THEN PyTrue ELSE PyFalse

\* return func(*args, **kwargs): what the wrapper returns after func returned v.
WrapperReturn(v) == v
\* return False
WrapperReject == PyFalse

\* The value stage j returns when stage i (j <= i) has returned v and every
\* wrapper between them returns with its return statement.
RECURSIVE ReturnedBy(_, _, _)
ReturnedBy(j, i, v) == IF j >= i THEN v ELSE WrapperReturn(ReturnedBy(j + 1, i, v))

\* ------------------------------------------------- terminal actions
\* The callables at the bottom of a chain: a function of the simulator that
\* runs it and returns 1, decorated with try_except_timeout (as
\* ManageBeamline.run is) or with no_timeout, and a function that returns a
\* value without running the simulator.
RunTerms == {"run_try_except_timeout", "run_no_timeout"}
Terms == RunTerms \cup {"value"}
TermValue == 7
TerminalResult(term, outcome) ==
    CASE term = "run_try_except_timeout" -> try_except_timeout(RunBody(outcome))
      [] term = "run_no_timeout" -> no_timeout(RunBody(outcome))
      [] term = "value" -> [ret |-> PyInt(TermValue), exc |-> NoExc]

\* --------------------------------------------------- calling a chain
\* A chain: predicate decorators preds[1] (outermost) .. preds[n] around the
\* terminal action term; stage n+1 is the terminal action.
Chains ==
    { c \in UNION { [1..n -> StageSet] : n \in 0..MaxChain } :
        \A i, j \in 1..Len(c) : i # j => c[i] # c[j] }

NoArgs == [args |-> <<>>, kwargs |-> {}]
\* Calls made directly with arguments of the caller's choice; 0 is a value
\* that is not an ImpactTBeamline.
DirectArgs ==
    { [args |-> <<>>, kwargs |-> {}],
      [args |-> <<0>>, kwargs |-> {}],
      [args |-> <<>>, kwargs |-> {<<"beamline", 1>>}],
      [args |-> <<0, 1>>, kwargs |-> {}],
      [args |-> <<2, 1>>, kwargs |-> {}],
      [args |-> <<1, 2>>, kwargs |-> {}] }

\* The simulator a terminal action of the form f(beamline) works on.
TerminalTarget(a) ==
    IF a.args # <<>> THEN a.args[1]
    ELSE IF \E p \in a.kwargs : p[1] = "beamline"
      THEN (CHOOSE p \in a.kwargs : p[1] = "beamline")[2]
    ELSE Null

StartCall(preds, term, a) ==
    /\ call.phase = "idle"
    /\ term \in RunTerms => TerminalTarget(a) = 1
    /\ call' = [phase |-> "down", preds |-> preds, term |-> term,
                args |-> a.args, kwargs |-> a.kwargs, pos |-> 1,
                calls |-> [j \in 1..(Len(preds) + 1) |-> IF j = 1 THEN 1 ELSE 0],
                recv |-> [j \in 1..(Len(preds) + 1) |-> IF j = 1 THEN a ELSE NoArgs],
                verdicts |-> [j \in 1..Len(preds) |-> "none"],
                rets |-> [j \in 1..(Len(preds) + 1) |-> PyNone],
                log |-> <<>>, reads |-> <<>>, raised |-> [stage |-> 0, exc |-> NoExc],
                diag0 |-> [b \in ObjIds |-> beams[b].diag], ret |-> PyNone, exc |-> NoExc]
    /\ UNCHANGED <<objs, configs, beams, last, dups, arg>>

\* ManageBeamline.eval_beamline: func(self.beamline)
EvalBeamline(o, preds, term) ==
    /\ Allocated(o)
    /\ StartCall(preds, term, [args |-> <<BeamOf(o)>>, kwargs |-> {}])

DirectCall(preds, term, a) == StartCall(preds, term, a)

\* Variant: a stage that returns the timed-out value is entered once more.
Finished_Retry(c, i, v, exc) ==
    IF exc = NoExc /\ v = PyInt(TimedOut) /\ c.calls[i] < 2
      THEN [c EXCEPT !.calls[i] = @ + 1]
    ELSE [c EXCEPT !.phase = "done",
                   !.rets = [j \in DOMAIN c.rets |->
                               IF exc = NoExc /\ j <= i THEN ReturnedBy(j, i, v) ELSE PyNone],
                   !.ret = IF exc = NoExc THEN ReturnedBy(1, i, v) ELSE PyNone,
                   !.exc = exc]

\* How the call ends once stage i has returned v or raised exc.
Finished(c, i, v, exc) ==
    [c EXCEPT !.phase = "done",
              !.rets = [j \in DOMAIN c.rets |->
                          IF exc = NoExc /\ j <= i THEN ReturnedBy(j, i, v) ELSE PyNone],
              !.ret = IF exc = NoExc THEN ReturnedBy(1, i, v) ELSE PyNone,
              !.exc = exc]

\* Variant: the position list is sorted in place (z_pos.sort()).
ClosureAfter_SortInPlace(st) ==
    IF st.kind = "monotonic_energy_gain" THEN [st EXCEPT !.z_pos = Sorted(@)] ELSE st

\* The decoration-time parameters as one evaluation of the wrapper leaves
\* them: the wrappers only read them, sorted(z_pos) builds a new list.
ClosureAfter(st) == st

\* One predicate wrapper runs: it evaluates its condition, logs, and either
\* calls the wrapped callable, returns False, or raises.
StepPredicate ==
    /\ call.phase = "down"
    /\ call.pos <= Len(call.preds)
    /\ LET i == call.pos
           st == call.preds[i]
           e == WrapperEval(st, call.recv[i].args, beams)
           c1 == [call EXCEPT
                    !.preds[i] = ClosureAfter(st),
                    !.log = @ \o e.log,
                    !.reads = @ \o [k \in 1..Len(e.reads) |->
                                      [stage |-> i,
                                       beam |-> get_beamline_instance(call.recv[i].args).b,
                                       fort |-> e.reads[k].fort,
                                       seen |-> e.reads[k].seen,
                                       termCalls |-> call.calls[Len(call.preds) + 1]]],
                    !.verdicts[i] = IF e.exc # NoExc THEN "Error"
                                    ELSE IF e.pass THEN "Pass" ELSE "Fail"]
       IN call' =
            IF e.exc # NoExc
              THEN Finished([c1 EXCEPT !.raised = [stage |-> i, exc |-> e.exc]], i, PyNone, e.exc)
            ELSE IF InvokesInner(e.pass)
              THEN [c1 EXCEPT !.calls[i + 1] = @ + 1,
                              !.recv[i + 1] = PassArgs(call.recv[i]),
                              !.pos = i + 1]
            ELSE Finished(c1, i, WrapperReject, NoExc)
    /\ UNCHANGED <<objs, configs, beams, last, dups, arg>>

\* The terminal action runs and the call returns through the wrappers.
StepTerminal ==
    /\ call.phase = "down"
    /\ call.pos = Len(call.preds) + 1
    /\ LET n1 == call.pos
       IN IF call.term \in RunTerms
            THEN \E outcome \in RunOutcomes, d \in DiagSet :
                   LET r == TerminalResult(call.term, outcome)
                       c1 == [call EXCEPT
                                !.raised = [stage |-> IF outcome = "ok" THEN 0 ELSE n1,
                                            exc |-> RunExc(outcome)],
                                !.log = IF outcome = "TimeoutExpired" /\ r.exc = NoExc
                                          THEN @ \o <<[test |-> "Timeout Occured", kind |-> "warning", vals |-> <<>>]>>
                                          ELSE @]
                   IN /\ beams' = [beams EXCEPT ![TerminalTarget(call.recv[n1])] = BeamlineRun(@, d)]
                      /\ call' = Finished(c1, n1, r.ret, r.exc)
            ELSE /\ beams' = beams
                 /\ call' = Finished(call, n1, TerminalResult(call.term, "ok").ret, NoExc)
    /\ UNCHANGED <<objs, configs, last, dups, arg>>

\* The caller has the result; nothing of the call is kept.
Return ==
    /\ call.phase = "done"
    /\ call' = NoCall
    /\ UNCHANGED <<objs, configs, beams, last, dups, arg>>

\* ============================================================ properties
\* The simulator of o holds the derivation of o's current editable values.
Fresh(o) == beams[BeamOf(o)].settings = gen(configs[CfgOf(o)])
\* The simulator of o holds some derivation output (it has been configured).
Derived(o) == beams[BeamOf(o)].settings \in { gen(v) : v \in [Keys -> Vals] }

\* C2: after every call to update, beamline.settings equals gen() of the
\* current editable values; no update leaves changed editable values next to
\* an older derivation.  (Stated from states in which the settings were the
\* derivation before the call.)
C2_SettingsFollowUpdate ==
    [][(last'.op = "update" /\ Fresh(last'.obj)) =>
          beams'[BeamOf(last'.obj)].settings = gen(configs'[CfgOf(last'.obj)])]_vars

\* C7: an update rejected with KeyError has changed no editable value, and
\* the settings are still the derivation of the stored editable values.
C7_RejectedUpdateAtomic ==
    [][(last'.op = "update" /\ last'.exc = "KeyError") =>
          /\ configs'[CfgOf(last'.obj)] = configs[CfgOf(last'.obj)]
          /\ (Fresh(last'.obj) =>
                beams'[BeamOf(last'.obj)].settings = gen(configs'[CfgOf(last'.obj)]))]_vars

\* C8: after a successful update(changes), get(k) is changes[k] for the keys
\* of changes and what it was before for every other registered key; get
\* returns the editable value and changes neither the editable values nor
\* the simulator's settings.
C8_UpdateGetFrame ==
    [][/\ (last'.op = "update" /\ last'.exc = NoExc) =>
             \A k \in Keys :
                GetValue(configs'[CfgOf(last'.obj)], k) =
                   IF k \in ChangeKeys(arg')
                     THEN [ret |-> PyInt(ChangeVal(arg', k)), exc |-> NoExc]
                     ELSE GetValue(configs[CfgOf(last'.obj)], k)
       /\ (last'.op = "get" /\ arg'[1] \in Keys) =>
             /\ last'.ret = PyInt(configs[CfgOf(last'.obj)][arg'[1]])
             /\ last'.exc = NoExc
             /\ configs' = configs
             /\ beams' = beams]_vars

\* C8 witness: a successful update has overwritten amp and left charge alone,
\* in a state where the editable amp differs from the derived GunAmp.
C8_Witness ==
    /\ last.op = "update" /\ last.exc = NoExc
    /\ ChangeKeys(arg) = {"amp"}
    /\ configs[CfgOf(1)]["amp"] = 1 /\ configs[CfgOf(1)]["charge"] = 0
    /\ Fresh(1) /\ beams[BeamOf(1)].settings["GunAmp"] # configs[CfgOf(1)]["amp"]

\* C9: in a state reached by update calls, update({}) leaves the editable
\* values, the derived mapping and the simulator's active settings as they
\* were.
C9_EmptyUpdateNoOp ==
    [][(last'.op = "update" /\ arg' = <<>> /\ Derived(last'.obj)) =>
          /\ configs' = configs
          /\ gen(configs'[CfgOf(last'.obj)]) = gen(configs[CfgOf(last'.obj)])
          /\ beams'[BeamOf(last'.obj)].settings = beams[BeamOf(last'.obj)].settings]_vars

\* C10: a deep duplicate is independent: an update on the duplicate leaves
\* the original's editable values, configuration and simulator settings
\* unchanged, and an update on the original leaves the duplicate's unchanged.
C10_DeepCopyIndependent ==
    [][last'.op = "update" =>
          \A p \in ObjIds :
             (<<last'.obj, p>> \in dups \/ <<p, last'.obj>> \in dups) =>
                /\ configs'[CfgOf(p)] = configs[CfgOf(p)]
                /\ beams'[BeamOf(p)] = beams[BeamOf(p)]
                /\ objs'[p] = objs[p]]_vars

\* C10 witness: original and deep duplicate have diverged after updates.
C10_Witness ==
    \E d \in dups :
       /\ last.op = "update" /\ last.exc = NoExc
       /\ configs[CfgOf(d[1])] # configs[CfgOf(d[2])]
       /\ beams[BeamOf(d[1])].settings # beams[BeamOf(d[2])].settings
       /\ Fresh(d[1]) /\ Fresh(d[2])

\* ------------------------------------------------- chain properties
NStages == Len(call.preds)
Active == call.phase # "idle"
TermCalls == call.calls[NStages + 1]
RecordOf(diag, fort) == IF fort = 18 THEN diag.fort18 ELSE diag.fort26

\* C1: predicates are evaluated outermost first, and once a predicate has
\* failed no stage nested inside it (predicate or terminal action) is invoked
\* in that chain call: its call count stays 0 and the simulator is untouched.
C1_ShortCircuit ==
    Active =>
      \A i \in 1..NStages :
         /\ call.verdicts[i] = "Fail" =>
               /\ \A j \in (i + 1)..(NStages + 1) : call.calls[j] = 0
               /\ \A b \in ObjIds : beams[b].diag = call.diag0[b]
         /\ call.verdicts[i] # "none" => \A j \in 1..(i - 1) : call.verdicts[j] = "Pass"
         /\ call.calls[i + 1] >= 1 => call.verdicts[i] = "Pass"

\* C1 witness: [final_energy, no_negative_velocity, run] has returned after
\* final_energy failed.
C1_Witness ==
    /\ call.phase = "done"
    /\ NStages = 2
    /\ call.preds[1].kind = "final_energy" /\ call.preds[2].kind = "no_negative_velocity"
    /\ call.term \in RunTerms
    /\ call.verdicts[1] = "Fail"
    /\ call.calls = <<1, 0, 0>>

\* C3 (as claimed): in a chain whose terminal action runs the simulator, the
\* records a diagnostic predicate has read are those of the run made in this
\* chain call.
C3_ReadsAfterRun ==
    (call.phase = "done" /\ call.term \in RunTerms /\ TermCalls = 1) =>
       \A k \in 1..Len(call.reads) :
          call.reads[k].seen = RecordOf(beams[call.reads[k].beam].diag, call.reads[k].fort)

\* C3 (amended): every diagnostic predicate reads the records before the
\* terminal action has been invoked, and what it reads are the records that
\* existed when the chain was called.
C3_ReadsBeforeRun ==
    Active =>
       \A k \in 1..Len(call.reads) :
          /\ call.reads[k].termCalls = 0
          /\ call.reads[k].seen = RecordOf(call.diag0[call.reads[k].beam], call.reads[k].fort)

\* C3 witness: a chain with a diagnostic predicate has run the simulator, and
\* the run has replaced the records the predicate had read.
C3_Witness ==
    /\ call.phase = "done"
    /\ call.term \in RunTerms /\ TermCalls = 1
    /\ call.reads # <<>>
    /\ \E k \in 1..Len(call.reads) :
          call.reads[k].seen # RecordOf(beams[call.reads[k].beam].diag, call.reads[k].fort)

\* C4: a wrapper whose condition passes calls the wrapped callable exactly
\* once with the arguments it received and returns what the callable returned
\* (so a chain of passing predicates returns the terminal action's result);
\* a wrapper whose condition fails returns False without calling it.
C4_WrapperPassThrough ==
    Active =>
      /\ \A i \in 1..NStages :
            /\ call.verdicts[i] = "Pass" =>
                  /\ call.calls[i + 1] = 1
                  /\ call.recv[i + 1] = call.recv[i]
                  /\ (call.phase = "done" /\ call.exc = NoExc) => call.rets[i] = call.rets[i + 1]
            /\ call.verdicts[i] = "Fail" =>
                  /\ call.calls[i + 1] = 0
                  /\ call.phase = "done" /\ call.exc = NoExc
                  /\ call.rets[i] = PyFalse
      /\ (call.phase = "done" /\ call.exc = NoExc
            /\ \A i \in 1..NStages : call.verdicts[i] = "Pass") =>
            call.ret = call.rets[NStages + 1]

\* C4 witness: two predicates passed and the chain returned the timed-out
\* value of its terminal action.
C4_Witness ==
    /\ call.phase = "done" /\ call.exc = NoExc
    /\ NStages = 2
    /\ call.verdicts = <<"Pass", "Pass">>
    /\ call.raised.exc = "TimeoutExpired"
    /\ call.ret = PyInt(TimedOut)

C6_OnlyTimeoutAbsorbed ==
    (call.phase = "done" /\ call.raised.exc \notin {NoExc, "TimeoutExpired"}) =>
       /\ call.exc = call.raised.exc
       /\ \A j \in (call.raised.stage + 1)..(NStages + 1) : call.calls[j] = 0

\* ------------------------------------------------- shallow duplicates
\* p is another object holding the same simulator and configuration references as o.
SharesWith(o, p) == o # p /\ Allocated(o) /\ Allocated(p) /\ objs[o] = objs[p]

\* C11: a shallow duplicate shares the simulator and the configuration: the
\* object made by copy.copy holds the references of the original, an update
\* through either object is seen through the other (same get, same simulator
\* settings), and after an update on either the settings of both are the
\* derivation of the editable values.
C11_ShallowCopyShares ==
    [][/\ last'.op = "copy" =>
             \E n \in ObjIds : ~Allocated(n) /\ objs'[n] = objs[last'.obj]
       /\ last'.op = "update" =>
             \A p \in ObjIds :
                SharesWith(last'.obj, p) =>
                   /\ \A k \in Keys : GetValue(configs'[CfgOf(p)], k)
                                        = GetValue(configs'[CfgOf(last'.obj)], k)
                   /\ beams'[BeamOf(p)].settings = beams'[BeamOf(last'.obj)].settings
                   /\ Fresh(last'.obj) =>
                         /\ beams'[BeamOf(last'.obj)].settings = gen(configs'[CfgOf(last'.obj)])
                         /\ beams'[BeamOf(p)].settings = gen(configs'[CfgOf(p)])]_vars

\* ------------------------------------------------ predicate verdicts
\* The predicate at stage i has reached a verdict in the call in progress.
Judged(i, kind) ==
    /\ Active /\ i \in 1..NStages
    /\ call.preds[i].kind = kind
    /\ call.verdicts[i] \in {"Pass", "Fail"}
\* The simulator the predicate at stage i works on.
StageBeam(i) == beams[get_beamline_instance(call.recv[i].args).b]

\* C12: monotonic_energy_gain passes if and only if every successive
\* difference KE[i+1] - KE[i] of the record resampled at the sorted positions
\* is greater than or equal to -tol; a difference equal to -tol passes.
C12_MonotonicInclusive ==
    \A i \in 1..NStages :
       Judged(i, "monotonic_energy_gain") =>
          LET ke == RowsAt(StageBeam(i).diag.fort18, Sorted(call.preds[i].z_pos))
          IN (call.verdicts[i] = "Pass")
                <=> (\A k \in 1..(Len(ke) - 1) : ke[k + 1] - ke[k] >= -call.preds[i].tol)

\* C13: final_energy passes if and only if the kinetic energy of the last
\* sample of the element-18 record differs from final_ke by strictly less
\* than tol; no other sample matters.
C13_FinalEnergyStrict ==
    \A i \in 1..NStages :
       Judged(i, "final_energy") =>
          LET KE == StageBeam(i).diag.fort18
              d == KE[Len(KE)] - call.preds[i].final_ke
          IN (call.verdicts[i] = "Pass") <=> (d < call.preds[i].tol /\ -d < call.preds[i].tol)

\* C13 witness: the last sample is exactly tol away from the target while an
\* earlier sample equals the target, and the predicate has failed.
C13_Witness ==
    \E i \in 1..NStages :
       /\ Judged(i, "final_energy") /\ call.verdicts[i] = "Fail"
       /\ LET KE == StageBeam(i).diag.fort18
          IN /\ call.preds[i].tol > 0
             /\ KE[Len(KE)] - call.preds[i].final_ke = call.preds[i].tol
             /\ \E k \in 1..(Len(KE) - 1) : KE[k] = call.preds[i].final_ke

\* C14: check_sc_limit_emission passes if and only if eF_gun is strictly
\* greater than sc_factor*eF_sc, where eF_gun = gun_amp*sin(gun_phase -
\* zero_crossing_phase) and eF_sc = Q_TOT/rRMS^2; so it fails when gun_phase
\* is the zero-crossing phase and charge and radius are positive, and passes
\* when the charge is 0 and eF_gun > 0.
C14_ScStrict ==
    \A i \in 1..NStages :
       Judged(i, "check_sc_limit_emission") =>
          LET st == call.preds[i]
              s == StageBeam(i).settings
              twice_eF_gun == s["GunAmp"] * Sin2(s["GunPhase"] - st.zero_crossing_phase)
              r2 == s[st.radius_name] * s[st.radius_name]
          IN /\ (call.verdicts[i] = "Pass")
                   <=> (twice_eF_gun * st.sc_factor.den * r2 > 2 * st.sc_factor.num * s["Qtotal"])
             /\ (s["GunPhase"] = st.zero_crossing_phase /\ s["Qtotal"] > 0 /\ r2 > 0)
                   => call.verdicts[i] = "Fail"
             /\ (s["Qtotal"] = 0 /\ twice_eF_gun > 0) => call.verdicts[i] = "Pass"

\* C14 witness: eF_gun equals sc_factor*eF_sc with a positive charge, and the
\* predicate has failed.
C14_Witness ==
    \E i \in 1..NStages :
       /\ Judged(i, "check_sc_limit_emission") /\ call.verdicts[i] = "Fail"
       /\ LET st == call.preds[i]
              s == StageBeam(i).settings
          IN /\ s["Qtotal"] > 0
             /\ s["GunAmp"] * Sin2(s["GunPhase"] - st.zero_crossing_phase) * st.sc_factor.den
                   * s[st.radius_name] * s[st.radius_name] = 2 * st.sc_factor.num * s["Qtotal"]

\* C15: no_negative_velocity passes if and only if no sample of the
\* element-26 record has avgPz < 0: zeros pass, one negative sample fails.
C15_NoNegativeVelocity ==
    \A i \in 1..NStages :
       Judged(i, "no_negative_velocity") =>
          LET avgPz == StageBeam(i).diag.fort26
          IN (call.verdicts[i] = "Pass") <=> (\A k \in 1..Len(avgPz) : avgPz[k] >= 0)

\* C15 witness: a record with a single negative sample between positive ones
\* has failed the test.
C15_Witness ==
    \E i \in 1..NStages :
       /\ Judged(i, "no_negative_velocity") /\ call.verdicts[i] = "Fail"
       /\ StageBeam(i).diag.fort26 = <<1, -1, 1>>

\* C15 second case: a record of samples >= 0 with a zero among them has passed.
C15_ZeroPasses ==
    \E i \in 1..NStages :
       /\ Judged(i, "no_negative_velocity") /\ call.verdicts[i] = "Pass"
       /\ StageBeam(i).diag.fort26 = <<1, 0, 1>>

\* ------------------------------------------------ context lookup, log, retries
\* The simulators as the call in progress found them when it started.
BeamsAtCall == [b \in ObjIds |-> [settings |-> beams[b].settings, diag |-> call.diag0[b]]]
VerdictOf(e) == IF e.exc # NoExc THEN "Error" ELSE IF e.pass THEN "Pass" ELSE "Fail"

\* C16: a predicate takes its context from the positional arguments only.
\* With no simulator among them (also when it is passed by keyword only) the
\* predicate raises the lookup error before it reads a setting or a record,
\* logs or calls the wrapped callable; with several, the first in argument
\* order is the one that is read and that decides the verdict.
C16_ContextLookup ==
    Active =>
      \A i \in 1..NStages :
         call.verdicts[i] # "none" =>
            LET a == call.recv[i].args
                hits == { k \in 1..Len(a) : a[k] \in ObjIds }
            IN IF hits = {}
                 THEN /\ call.verdicts[i] = "Error"
                      /\ call.phase = "done" /\ call.exc = "IndexError"
                      /\ call.raised = [stage |-> i, exc |-> "IndexError"]
                      /\ call.calls[i + 1] = 0
                      /\ ~ \E k \in 1..Len(call.reads) : call.reads[k].stage = i
                      /\ i = 1 => call.log = <<>>
               ELSE LET first == a[CHOOSE k \in hits : \A m \in hits : k <= m]
                    IN /\ \A k \in 1..Len(call.reads) :
                             call.reads[k].stage = i =>
                                /\ call.reads[k].beam = first
                                /\ call.reads[k].seen = RecordOf(call.diag0[first], call.reads[k].fort)
                       /\ call.verdicts[i] = VerdictOf(WrapperEval(call.preds[i], <<first>>, BeamsAtCall))

\* C16 witness: the call was made with two simulators, f(b2, b1), and the
\* predicate read a record of b2 that differs from the one of b1.
C16_Witness ==
    /\ Active /\ NStages >= 1
    /\ call.recv[1].args = <<2, 1>>
    /\ call.verdicts[1] \in {"Pass", "Fail"}
    /\ \E k \in 1..Len(call.reads) :
          /\ call.reads[k].stage = 1 /\ call.reads[k].beam = 2
          /\ call.reads[k].seen # RecordOf(call.diag0[1], call.reads[k].fort)

\* C16 second case: the simulator was passed by keyword only and the
\* predicate raised the lookup error.
C16_KeywordOnly ==
    /\ Active /\ NStages >= 1
    /\ call.recv[1].args = <<>> /\ call.recv[1].kwargs # {}
    /\ call.verdicts[1] = "Error" /\ call.exc = "IndexError"

\* The test name a predicate logs under.
TestName(kind) ==
    CASE kind = "check_sc_limit_emission" -> "Space Charge Limited Emission Test"
      [] kind = "no_negative_velocity" -> "Negative Velocity Test"
      [] kind = "monotonic_energy_gain" -> "Monotonic Energy Test"
      [] kind = "final_energy" -> "Final Energy Test"
IsVerdictLine(l) == l.kind \in {"Pass", "Fail"}
VerdictLines == SelectSeq(call.log, IsVerdictLine)

\* C17: every predicate that reached a verdict has logged at least one line
\* with its quantities and exactly one verdict line, so after a chain call
\* the verdict lines of the log are those of the evaluated predicates,
\* outermost first.
C17_LogLines ==
    (call.phase = "done" /\ call.exc = NoExc) =>
       LET evaluated == { i \in 1..NStages : call.verdicts[i] \in {"Pass", "Fail"} }
       IN /\ Len(VerdictLines) = Cardinality(evaluated)
          /\ \A i \in evaluated :
                /\ i <= Len(VerdictLines)
                /\ VerdictLines[i].kind = call.verdicts[i]
                /\ VerdictLines[i].test = TestName(call.preds[i].kind)
                /\ \E k \in 1..Len(call.log) :
                      /\ call.log[k].kind = "quantities"
                      /\ call.log[k].test = TestName(call.preds[i].kind)

\* C19: in one invocation of a chain every stage, the terminal action
\* included, is entered at most once, whatever its outcome; a run that timed
\* out is not run again.
C19_NoRetry ==
    Active =>
      /\ \A j \in 1..(NStages + 1) : call.calls[j] <= 1
      /\ \A i \in 1..NStages :
            Cardinality({ k \in 1..Len(call.reads) : call.reads[k].stage = i }) <= 1
      /\ (call.phase = "done" /\ call.raised.exc = "TimeoutExpired") => TermCalls = 1

\* C19 witness: the run of the terminal action timed out, the chain returned
\* the timed-out value, and every stage was entered exactly once.
C19_Witness ==
    /\ call.phase = "done" /\ call.exc = NoExc
    /\ NStages = 2
    /\ call.raised.exc = "TimeoutExpired"
    /\ call.ret = PyInt(TimedOut)
    /\ \A j \in 1..3 : call.calls[j] = 1
    /\ Len(call.reads) = 2

\* ------------------------------------------------ frame of the operations
\* The step is an update: only update records itself as the last operation
\* while no chain call is in progress.
IsUpdateStep == call.phase = "idle" /\ call' = call /\ last'.op = "update"

\* C18: update is the only operation that changes the settings: a step of
\* get, run, copy, deepcopy or of the evaluation of a chain leaves the
\* editable values and the simulator settings of every object as they were.
C18_OnlyUpdateWrites ==
    [][~IsUpdateStep =>
          \A o \in ObjIds :
             Allocated(o) =>
                /\ configs'[CfgOf(o)] = configs[CfgOf(o)]
                /\ beams'[BeamOf(o)].settings = beams[BeamOf(o)].settings
                /\ objs'[o] = objs[o]]_vars

\* C18 witness: after a rejected update, copies and a run, a chain has been
\* evaluated to a Fail verdict on an object whose settings are not the
\* derivation of its editable values.
C18_Witness ==
    /\ call.phase = "done" /\ NStages >= 1 /\ call.verdicts[1] = "Fail"
    /\ last.op = "run"
    /\ \E o, p \in ObjIds :
          /\ o # p /\ Allocated(o) /\ Allocated(p)
          /\ beams[BeamOf(o)].settings # <<>> /\ ~Fresh(o)

\* ------------------------------------------------ repeated invocation
\* The invocation in progress sees the settings and records the previous
\* invocation of the same decorated callable saw.
SameInputsAsBefore ==
    /\ deco.prev.n > 0
    /\ beams[1].settings = deco.prev.settings
    /\ call.diag0[1] = deco.prev.diag

\* C20: a decorated chain keeps no state between invocations and leaves its
\* decoration-time parameters as they were given (z_pos is not reordered,
\* tol, final_ke and sc_factor are not changed); two invocations on the same
\* context with identical settings and records give the same verdicts and
\* the same stage invocations.
C20_Stateless ==
    /\ deco.state = "ready" => deco.preds = deco.orig
    /\ (deco.state = "ready" /\ Active) => call.preds = deco.orig
    /\ (deco.state = "ready" /\ call.phase = "done" /\ SameInputsAsBefore) =>
          /\ call.verdicts = deco.prev.verdicts
          /\ call.calls = deco.prev.calls

\* C20 witness: a chain holding an unsorted position list has been invoked a
\* second time on the inputs of an earlier invocation, and its
\* monotonic_energy_gain stage has passed again.
C20_Witness ==
    /\ deco.state = "ready" /\ call.phase = "done" /\ SameInputsAsBefore
    /\ \E i \in 1..NStages :
          /\ call.preds[i].kind = "monotonic_energy_gain"
          /\ call.preds[i].z_pos # Sorted(call.preds[i].z_pos)
          /\ call.verdicts[i] = "Pass"

\* ------------------------------------------------------ specification
\* One context; the argument of every update and get is recorded.
Next ==
    \/ \E o \in ObjIds, ch \in ChangeSeqs : Update(o, ch) /\ arg' = ch /\ UNCHANGED deco
    \/ \E o \in ObjIds, k \in AllKeys : Get(o, k) /\ arg' = <<k>> /\ UNCHANGED deco

Spec == Init /\ [][Next]_vars

\* Several contexts made by copy.copy and copy.deepcopy; the updates are
\* drawn from a fixed set of val_dicts.
CopyChanges ==
    { <<>>, <<<<"amp", 0>>>>, <<<<"amp", 1>>>>, <<<<"charge", 1>>>>, <<<<UnknownKey, 0>>>>,
      <<<<"amp", 1>>, <<UnknownKey, 0>>>> }

NextCopy ==
    \/ \E o \in ObjIds, ch \in CopyChanges : Update(o, ch) /\ UNCHANGED arg /\ UNCHANGED deco
    \/ \E o \in ObjIds, k \in AllKeys : Get(o, k) /\ UNCHANGED arg /\ UNCHANGED deco
    \/ \E o \in ObjIds : Copy(o) /\ UNCHANGED arg /\ UNCHANGED deco
    \/ \E o \in ObjIds : DeepCopy(o) /\ UNCHANGED arg /\ UNCHANGED deco

SpecCopy == Init /\ [][NextCopy]_vars

\* Runs of the simulator and chains of predicates called on a configured
\* simulator.
SettingsSet ==
    { <<>>, gen([amp |-> 1, charge |-> 0]), gen([amp |-> 0, charge |-> 1]) }

InitChain ==
    /\ objs = [o \in ObjIds |-> IF o = 1 THEN ManageBeamline_init(1, 1) ELSE NoObj]
    /\ configs = [c \in ObjIds |-> InitVals]
    /\ \E s \in SettingsSet, d \in DiagSet :
          beams = [b \in ObjIds |-> IF b = 1 THEN [settings |-> s, diag |-> d]
                                    ELSE InitBeam(gen(InitVals))]
    /\ last = [op |-> "init", obj |-> 1, ret |-> PyNone, exc |-> NoExc]
    /\ call = NoCall
    /\ dups = {}
    /\ arg = <<>>
    /\ deco = NoDeco

NextChain ==
    \/ \E o \in ObjIds, outcome \in RunOutcomes, d \in DiagSet : Run(o, outcome, d) /\ arg' = <<outcome>> /\ UNCHANGED deco
    \/ \E o \in ObjIds, c \in Chains, t \in Terms : EvalBeamline(o, c, t) /\ UNCHANGED deco
    \/ \E c \in Chains, t \in Terms, a \in DirectArgs : DirectCall(c, t, a) /\ UNCHANGED deco
    \/ StepPredicate /\ UNCHANGED deco
    \/ StepTerminal /\ UNCHANGED deco
    \/ Return /\ UNCHANGED deco

SpecChain == InitChain /\ [][NextChain]_vars

\* One predicate around a terminal action that returns a value, called on
\* simulators whose settings and diagnostic records are drawn from bounded
\* sets.
SeqsUpTo(S, n) == UNION { [1..m -> S] : m \in 0..n }
PredDiags ==
    { [fort18 |-> ke, fort26 |-> <<>>] : ke \in SeqsUpTo(0..MaxKE, MaxLen) }
      \cup { [fort18 |-> <<>>, fort26 |-> pz] : pz \in SeqsUpTo(-1..1, MaxLen) }
ScSettings(a, ph, r, q) ==
    ("GunAmp" :> a) @@ ("GunPhase" :> ph) @@ (RadiusName :> r) @@ ("Qtotal" :> q)
PredSettings ==
    { ScSettings(a, ph, r, q) : a \in 0..MaxAmp, ph \in {0, 90, -90}, r \in {1, 2}, q \in 0..MaxAmp }
PredStages ==
    { check_sc_limit_emission(DefaultZeroCrossing, DefaultScFactor, RadiusName),
      check_sc_limit_emission(-90, [num |-> 1, den |-> 1], RadiusName),
      no_negative_velocity,
      monotonic_energy_gain(<<1, 2, 3>>, 0),
      monotonic_energy_gain(<<3, 1, 2>>, 1),
      final_energy(1, 1),
      final_energy(2, 0),
      final_energy(0, 2) }

InitPred ==
    /\ objs = [o \in ObjIds |-> IF o = 1 THEN ManageBeamline_init(1, 1) ELSE NoObj]
    /\ configs = [c \in ObjIds |-> InitVals]
    /\ \E b1 \in { [settings |-> s, diag |-> NoDiag] : s \in PredSettings }
                  \cup { [settings |-> gen(InitVals), diag |-> d] : d \in PredDiags } :
          beams = [b \in ObjIds |-> IF b = 1 THEN b1 ELSE InitBeam(gen(InitVals))]
    /\ last = [op |-> "init", obj |-> 1, ret |-> PyNone, exc |-> NoExc]
    /\ call = NoCall
    /\ dups = {}
    /\ arg = <<>>
    /\ deco = NoDeco

NextPred ==
    \/ \E st \in PredStages : EvalBeamline(1, <<st>>, "value") /\ UNCHANGED deco
    \/ StepPredicate /\ UNCHANGED deco
    \/ StepTerminal /\ UNCHANGED deco
    \/ Return /\ UNCHANGED deco

SpecPred == InitPred /\ [][NextPred]_vars


\* Every operation of ManageBeamline together with chains evaluated on it.
FrameChanges == { <<<<"amp", 1>>>>, <<<<"amp", 1>>, <<UnknownKey, 0>>>> }
FrameDiags == { d \in DiagSet : d.fort26 = <<1, -1, 2>> }
FrameChains ==
    { <<check_sc_limit_emission(DefaultZeroCrossing, DefaultScFactor, RadiusName),
        no_negative_velocity>> }
FrameTerms == {"value", "run_try_except_timeout"}

NextFrame ==
    \/ \E o \in ObjIds, ch \in FrameChanges : Update(o, ch) /\ UNCHANGED arg /\ UNCHANGED deco
    \/ \E o \in ObjIds, k \in AllKeys : Get(o, k) /\ UNCHANGED arg /\ UNCHANGED deco
    \/ \E o \in ObjIds : Copy(o) /\ UNCHANGED arg /\ UNCHANGED deco
    \/ \E o \in ObjIds : DeepCopy(o) /\ UNCHANGED arg /\ UNCHANGED deco
    \/ \E o \in ObjIds, outcome \in RunOutcomes, d \in FrameDiags : Run(o, outcome, d) /\ UNCHANGED arg /\ UNCHANGED deco
    \/ \E o \in ObjIds, c \in FrameChains, t \in FrameTerms : EvalBeamline(o, c, t) /\ UNCHANGED deco
    \/ StepPredicate /\ UNCHANGED deco
    \/ StepTerminal /\ UNCHANGED deco
    \/ Return /\ UNCHANGED deco

SpecFrame == Init /\ [][NextFrame]_vars

\* One decorated callable invoked again and again on the simulator of object
\* 1, whose settings and records change between the invocations.
TwiceChains ==
    { <<monotonic_energy_gain(<<3, 1, 2>>, 0)>>,
      <<check_sc_limit_emission(DefaultZeroCrossing, DefaultScFactor, RadiusName), final_energy(3, 1)>>,
      <<no_negative_velocity, monotonic_energy_gain(<<3, 1, 2>>, 0)>> }
TwiceTerms == {"value", "run_no_timeout"}

\* Applying the decorators: the wrappers capture the parameters.
Decorate(preds, term) ==
    /\ deco.state = "none"
    /\ call.phase = "idle"
    /\ deco' = [state |-> "ready", preds |-> preds, orig |-> preds, term |-> term, prev |-> NoPrev]
    /\ UNCHANGED <<objs, configs, beams, last, call, dups, arg>>

\* eval_beamline(f) with the decorated callable f.
Invoke ==
    /\ deco.state = "ready"
    /\ EvalBeamline(1, deco.preds, deco.term)
    /\ UNCHANGED deco

\* The invocation returns: the wrappers keep the parameter objects they hold.
ReturnKept ==
    /\ Return
    /\ deco' = [deco EXCEPT !.preds = call.preds,
                            !.prev = [n |-> 1, settings |-> beams[1].settings,
                                      diag |-> call.diag0[1],
                                      verdicts |-> call.verdicts, calls |-> call.calls]]

NextTwice ==
    \/ \E c \in TwiceChains, t \in TwiceTerms : Decorate(c, t)
    \/ Invoke
    \/ StepPredicate /\ UNCHANGED deco
    \/ StepTerminal /\ UNCHANGED deco
    \/ ReturnKept
    \/ \E ch \in FrameChanges : Update(1, ch) /\ UNCHANGED <<arg, deco>>
    \/ \E outcome \in RunOutcomes, d \in DiagSet : Run(1, outcome, d) /\ UNCHANGED <<arg, deco>>

SpecTwice == InitChain /\ [][NextTwice]_vars
====
